---- MODULE Spec2Model ----
(***************************************************************************)
(* Certificate generation and public verification of zap-server            *)
(* (src/src/routes/certificates.routes.js).                                *)
(*                                                                         *)
(* Strings are sequences of characters; a few fixed fragments (a URL       *)
(* scheme, a route prefix, a file suffix) are carried as one element.      *)
(* The metadata store (table "certificates") and the artifact store        *)
(* (bucket "certificates") are the shared state; every request handler is  *)
(* a process whose position is the await it is suspended at.               *)
(*                                                                         *)
(* The stores answer a call either by applying it or by returning an error *)
(* without applying it; the supabase client returns store faults as        *)
(* {data: null, error} and does not throw.  Columns the database fills in  *)
(* by itself (id, created_at) are left out of the records.                 *)
(***************************************************************************)
EXTENDS Integers, Sequences, FiniteSets, TLC

\* ------------------------------------------------------------------ bounds
MaxRows == 2

\* ------------------------------------------------------------- processes
Gens == {"g1", "g2"}
Vers == {"v1", "v2"}

VARIABLES db, storage, uuidCount, gen, ver

vars == <<db, storage, uuidCount, gen, ver>>

\* ------------------------------------------------------- string helpers
Null == <<"NULL">>

RECURSIVE TrimLeft(_)
TrimLeft(s) ==
  IF s # <<>> /\ Head(s) = " " THEN TrimLeft(Tail(s)) ELSE s

RECURSIVE TrimRight(_)
TrimRight(s) ==
  IF s # <<>> /\ s[Len(s)] = " " THEN TrimRight(SubSeq(s, 1, Len(s) - 1)) ELSE s

trim(s) == TrimRight(TrimLeft(s))

RECURSIVE ReplaceAll(_, _, _)
ReplaceAll(s, ch, rep) ==
  IF s = <<>> THEN <<>>
  ELSE (IF Head(s) = ch THEN rep ELSE <<Head(s)>>) \o ReplaceAll(Tail(s), ch, rep)

\* ------------------------------------------------------------ fetchBuffer
NoBuf == "null"

IsHttp(url) == url # <<>> /\ url[1] \in {"http://", "https://", "HTTP://"}

LocalOutcomes == {"png", "junk", "enoent"}
HttpOutcomes == {"png", "junk", "neterr", "timeout", "non2xx", "bodyerr"}

AssetOutcomes(url) ==
  IF url = <<>> THEN {"unused"}
  ELSE IF IsHttp(url) THEN HttpOutcomes ELSE LocalOutcomes

fetchBuffer(url, o) ==
  IF url = <<>> THEN NoBuf
  ELSE IF ~IsHttp(url)
    THEN (IF o = "enoent" THEN NoBuf ELSE o)
  ELSE IF o \in {"neterr", "timeout"} THEN NoBuf
  ELSE IF o = "non2xx" THEN NoBuf
  ELSE IF o = "bodyerr" THEN NoBuf
  ELSE o

\* --------------------------------------------------- renderCertificatePDF
ImageOk(buf) == buf = "png"

renderCertificatePDF(payload, logoOut, photoOut, qrOut) ==
  LET logoBuf == IF payload.logo_url # <<>>
                   THEN fetchBuffer(payload.logo_url, logoOut) ELSE NoBuf
      studentBuf == IF payload.image_url # <<>>
                      THEN fetchBuffer(payload.image_url, photoOut) ELSE NoBuf
  IN IF logoBuf # NoBuf /\ ~ImageOk(logoBuf)
       THEN [ok |-> FALSE, err |-> "Unknown image format (logo)"]
     ELSE IF studentBuf # NoBuf /\ ~ImageOk(studentBuf)
       THEN [ok |-> FALSE, err |-> "Unknown image format (photo)"]
     ELSE IF payload.verify_url # <<>> /\ qrOut # "ok"
       THEN [ok |-> FALSE, err |-> "QRCode error"]
     ELSE [ok |-> TRUE,
           buf |-> [logo |-> logoBuf # NoBuf,
                    institution |-> IF payload.institution_name # <<>>
                                      THEN payload.institution_name
                                      ELSE <<"Institution">>,
                    photo |-> studentBuf # NoBuf,
                    name |-> IF payload.full_name # <<>>
                               THEN payload.full_name
                               ELSE <<"Recipient Name">>,
                    program |-> payload.program,
                    certificate |-> payload.certificate,
                    cgpa |-> payload.cgpa,
                    certificate_id |-> payload.certificate_id,
                    qr |-> payload.verify_url]]

\* ----------------------------------------------------- uploadPdfToStorage
getPublicUrl(objectPath) == <<"public/">> \o objectPath

Put(store, objectPath, buffer) ==
  {o \in store : o.path # objectPath} \cup {[path |-> objectPath, body |-> buffer]}

uploadPdfToStorage(objectPath, publicBucket) ==
  [path |-> objectPath,
   url |-> IF publicBucket THEN getPublicUrl(objectPath) ELSE Null]

\* ------------------------------------------------------- POST /generate
Required == {"Full Name", "Program", "Certificate", "CGPA"}
Columns == Required \cup {"Image Url"}

NoFile == [kind |-> "none", rows |-> <<>>]
Corrupt == [kind |-> "corrupt", rows |-> <<>>]

Cell(row, c) == IF c \in DOMAIN row THEN row[c] ELSE <<>>

PublicBase == <<"https://zap-server-z2ra.onrender.com">>

Digit == <<"1", "2", "3", "4", "5", "6", "7", "8", "9">>
timeBasedId(n) == <<"u", Digit[(n + 1) \div 2]>>

uuidv4(n) == <<"u", Digit[n]>>

VerifyUrlNoId(certificateId) == PublicBase \o <<"/certificates/verify/">>

VerifyUrl(certificateId) == PublicBase \o <<"/certificates/verify/">> \o certificateId

Unsafe == {"/", "\\", ":", "*", "?", "\"", "<", ">", "|"}

RECURSIVE ReplaceUnsafe(_)
ReplaceUnsafe(s) ==
  IF s = <<>> THEN <<>>
  ELSE <<IF Head(s) \in Unsafe THEN "-" ELSE Head(s)>> \o ReplaceUnsafe(Tail(s))

SafeName(full_name) ==
  IF ReplaceUnsafe(full_name) # <<>> THEN ReplaceUnsafe(full_name) ELSE <<"recipient">>

ObjectPath(certificateId, full_name) ==
  <<"certificates/">> \o certificateId \o <<"/">> \o SafeName(full_name) \o <<".pdf">>

Payload(req, row, certificateId) ==
  [institution_name |-> trim(req.institution_name),
   full_name |-> trim(Cell(row, "Full Name")),
   program |-> trim(Cell(row, "Program")),
   certificate |-> trim(Cell(row, "Certificate")),
   cgpa |-> trim(Cell(row, "CGPA")),
   image_url |-> trim(Cell(row, "Image Url")),
   logo_url |-> trim(req.logo_url),
   certificate_id |-> certificateId,
   verify_url |-> VerifyUrl(certificateId)]

OrNull(s) == IF s # <<>> THEN s ELSE Null

Record(payload, up, createdBy) ==
  [certificate_id |-> payload.certificate_id,
   full_name |-> payload.full_name,
   program |-> payload.program,
   certificate |-> payload.certificate,
   cgpa |-> payload.cgpa,
   institution_name |-> payload.institution_name,
   image_url |-> OrNull(payload.image_url),
   logo_url |-> OrNull(payload.logo_url),
   pdf_path |-> up.path,
   pdf_url |-> up.url,
   verify_url |-> payload.verify_url,
   status |-> "valid",
   created_by |-> createdBy]

\* Parsed first sheet: every row carries every header column (defval: "").
RowA ==
  [c \in Columns |->
     CASE c = "Full Name" -> <<"A">>
       [] c = "Program" -> <<"P">>
       [] c = "Certificate" -> <<"C">>
       [] c = "CGPA" -> <<"4">>
       [] OTHER -> <<>>]

RowB ==
  [c \in Columns |->
     CASE c = "Full Name" -> <<" ", "<", "/">>
       [] c = "Program" -> <<>>
       [] c = "Certificate" -> <<"&">>
       [] c = "CGPA" -> <<>>
       [] OTHER -> <<"http://", "i">>]

Templates == {RowA, RowB}

Restrict(row, H) == [c \in H |-> row[c]]

Xlsx(rows) == [kind |-> "xlsx", rows |-> rows]

\* Sheets of 1..MaxRows rows, at most one of them carrying a photo reference.
FullSheets ==
  {rows \in UNION {[1..n -> Templates] : n \in 1..MaxRows} :
     Cardinality({i \in DOMAIN rows : rows[i] = RowB}) <= 1}

User == <<"r">>

Req(institution_name, logo_url, file) ==
  [institution_name |-> institution_name, logo_url |-> logo_url,
   file |-> file, user |-> User]

ValidRequests ==
  {Req(<<"I", " ">>, <<>>, Xlsx(rows)) : rows \in FullSheets}
    \cup {Req(<<"I">>, <<"f">>, Xlsx(<<RowA>>)),
          Req(<<"I">>, <<>>, Xlsx(<<Restrict(RowB, Required)>>))}

InvalidRequests ==
  {Req(<<" ">>, <<>>, Xlsx(<<RowA>>)),
   Req(<<"I">>, <<>>, NoFile),
   Req(<<"I">>, <<>>, Xlsx(<<>>)),
   Req(<<"I">>, <<>>, Xlsx(<<Restrict(RowA, Required \ {"CGPA"})>>)),
   Req(<<"I">>, <<>>, Xlsx(<<Restrict(RowB, Columns \ {"Full Name"}), RowA>>))}

Requests == ValidRequests \cup InvalidRequests \cup {Req(<<"I">>, <<>>, Corrupt)}

hasSomeCols(rows) == \E c \in Required : c \in DOMAIN rows[1]

hasCols(rows) == \A c \in Required : c \in DOMAIN rows[1]

\* The asset fetch of the row being rendered: which asset, where fetchBuffer
\* is suspended, whether its abort timer is armed, and what came back.
NoFetch ==
  [at |-> "logo", pc |-> "idle", timer |-> FALSE, logoOut |-> "unused",
   photoOut |-> "unused"]

IdleGen ==
  [pc |-> "idle", req |-> [institution_name |-> <<>>, logo_url |-> <<>>,
                             file |-> NoFile, user |-> Null],
   i |-> 0, certificateId |-> <<>>, pdfBuf |-> <<>>, up |-> <<>>,
   inserted |-> <<>>, err |-> "", res |-> [status |-> 0], fetch |-> NoFetch]

CurPayload(s) == Payload(s.req, s.req.file.rows[s.i], s.certificateId)

FailPartial(s, e) ==
  [s EXCEPT !.pc = "done", !.err = e,
            !.res = [status |-> 500, error |-> "Generation failed",
                     items |-> s.inserted]]

Fail(s, e) ==
  [s EXCEPT !.pc = "done", !.err = e,
            !.res = [status |-> 500, error |-> "Generation failed"]]

Reject(s, msg) ==
  [s EXCEPT !.pc = "done", !.res = [status |-> 400, error |-> msg]]

Validate(req) ==
  IF trim(req.institution_name) = <<>> THEN "institution_name is required"
  ELSE IF req.file.kind = "none" THEN "Excel file (file) is required"
  ELSE IF req.file.kind = "corrupt" THEN "throw"
  ELSE IF Len(req.file.rows) = 0 THEN "No rows in Excel"
  ELSE IF ~hasCols(req.file.rows) THEN "Missing required columns"
  ELSE "ok"

PushFront(inserted, data) == <<data>> \o inserted

Push(inserted, data) == Append(inserted, data)

UploadNeverThrows(upErr) == FALSE

UploadThrows(upErr) == upErr # "ok"

InsertNeverThrows(error) == FALSE

InsertThrows(error) == error # "ok"

\* Lines 231-277: validation, then the first iteration up to its first await.
GenerateFrom(g, requests) ==
  /\ gen[g].pc = "idle"
  /\ \E req \in requests :
       LET s0 == [gen[g] EXCEPT !.req = req]
           v == Validate(req)
       IN IF v = "ok"
            THEN /\ gen' = [gen EXCEPT ![g] =
                              [s0 EXCEPT !.pc = "render", !.i = 1,
                                         !.certificateId = uuidv4(uuidCount + 1)]]
                 /\ uuidCount' = uuidCount + 1
            ELSE /\ gen' = [gen EXCEPT ![g] =
                              IF v = "throw" THEN Fail(s0, "xlsx.read")
                              ELSE Reject(s0, v)]
                 /\ UNCHANGED uuidCount
  /\ UNCHANGED <<db, storage, ver>>

GenerateStart(g) == GenerateFrom(g, Requests)

RenderSkipsAhead(g) ==
  /\ gen[g].pc = "render"
  /\ IF gen[g].i < Len(gen[g].req.file.rows)
       THEN /\ gen' = [gen EXCEPT ![g].i = @ + 1,
                                  ![g].certificateId = uuidv4(uuidCount + 1)]
            /\ uuidCount' = uuidCount + 1
       ELSE /\ gen' = [gen EXCEPT ![g].pc = "done",
                                  ![g].res = [status |-> 200, count |-> 0,
                                              items |-> <<>>]]
            /\ UNCHANGED uuidCount
  /\ UNCHANGED <<db, storage, ver>>

\* Line 277 resolves or rejects; lines 280-283 issue the upload.
Render(g) ==
  /\ gen[g].pc = "render"
  /\ LET s == gen[g]
         payload == CurPayload(s)
     IN \E lo \in AssetOutcomes(payload.logo_url),
           po \in AssetOutcomes(payload.image_url),
           qo \in {"ok", "error"} :
          LET r == renderCertificatePDF(payload, lo, po, qo)
          IN gen' = [gen EXCEPT ![g] =
                       IF r.ok THEN [s EXCEPT !.pc = "upload", !.pdfBuf = <<r.buf>>]
                       ELSE Fail(s, r.err)]
  /\ UNCHANGED <<db, storage, uuidCount, ver>>

\* Lines 206-220 and 283-292: the upload completes; the insert is issued.
Upload(g) ==
  /\ gen[g].pc = "upload"
  /\ LET s == gen[g]
         objectPath == ObjectPath(s.certificateId, CurPayload(s).full_name)
     IN \E upErr \in {"ok", "storage error"} :
          /\ storage' = IF upErr = "ok"
                          THEN Put(storage, objectPath, s.pdfBuf[1])
                          ELSE storage
          /\ gen' = [gen EXCEPT ![g] =
                       IF UploadThrows(upErr) THEN Fail(s, upErr)
                       ELSE [s EXCEPT !.pc = "insert",
                                      !.up = <<uploadPdfToStorage(objectPath, TRUE)>>]]
  /\ UNCHANGED <<db, uuidCount, ver>>

\* Lines 292-324: the insert completes; next iteration or the response.
Insert(g) ==
  /\ gen[g].pc = "insert"
  /\ LET s == gen[g]
         data == Record(CurPayload(s), s.up[1], s.req.user)
     IN \E error \in {"ok", "insert error"} :
          /\ db' = IF error = "ok" THEN db \cup {data} ELSE db
          /\ IF InsertThrows(error)
               THEN /\ gen' = [gen EXCEPT ![g] = Fail(s, error)]
                    /\ UNCHANGED uuidCount
               ELSE LET inserted == Push(s.inserted, data)
                    IN IF s.i < Len(s.req.file.rows)
                         THEN /\ gen' = [gen EXCEPT ![g] =
                                           [s EXCEPT !.pc = "render", !.i = s.i + 1,
                                                     !.inserted = inserted,
                                                     !.certificateId = uuidv4(uuidCount + 1)]]
                              /\ uuidCount' = uuidCount + 1
                         ELSE /\ gen' = [gen EXCEPT ![g] =
                                           [s EXCEPT !.pc = "done", !.inserted = inserted,
                                                     !.res = [status |-> 200,
                                                              count |-> Len(inserted),
                                                              items |-> inserted]]]
                              /\ UNCHANGED uuidCount
  /\ UNCHANGED <<storage, ver>>

\* ------------------------------- renderCertificatePDF, await by await
FetchUrl(s) ==
  IF s.fetch.at = "logo" THEN CurPayload(s).logo_url ELSE CurPayload(s).image_url

\* An outcome for which fetchBuffer(url, _) is null.
Absent(url) == IF IsHttp(url) THEN "neterr" ELSE "enoent"

\* fetchBuffer has returned with outcome o (lines 67-74 and 99-117).
Returned(s, o) ==
  IF s.fetch.at = "logo"
    THEN LET r == renderCertificatePDF(CurPayload(s), o,
                                       Absent(CurPayload(s).image_url), "ok")
         IN IF r.ok
              THEN [s EXCEPT !.fetch = [@ EXCEPT !.at = "photo", !.pc = "idle",
                                                  !.timer = FALSE, !.logoOut = o]]
              ELSE [Fail(s, r.err) EXCEPT !.fetch = NoFetch]
    ELSE [s EXCEPT !.fetch = [@ EXCEPT !.at = "qr", !.pc = "idle",
                                        !.timer = FALSE, !.photoOut = o]]

\* Lines 15-25: no reference, a local read, or a remote fetch with its timer.
FetchCall(g) ==
  /\ gen[g].pc = "render"
  /\ gen[g].fetch.pc = "idle"
  /\ gen[g].fetch.at \in {"logo", "photo"}
  /\ LET s == gen[g]
         url == FetchUrl(s)
     IN IF url # <<>> /\ IsHttp(url)
          THEN gen' = [gen EXCEPT ![g].fetch.pc = "headers", ![g].fetch.timer = TRUE]
          ELSE \E o \in AssetOutcomes(url) :
                 gen' = [gen EXCEPT ![g] = Returned(s, o)]
  /\ UNCHANGED <<db, storage, uuidCount, ver>>

\* Lines 25-29: the response headers arrive; the timer is cleared.
HeadersArrive(g) ==
  /\ gen[g].fetch.pc = "headers"
  /\ \E ok \in BOOLEAN :
       gen' = [gen EXCEPT ![g] =
                 IF ok THEN [gen[g] EXCEPT !.fetch.pc = "body", !.fetch.timer = FALSE]
                 ELSE Returned(gen[g], "non2xx")]
  /\ UNCHANGED <<db, storage, uuidCount, ver>>

\* Lines 25 and 31-32: the connection fails before any response.
FetchRejects(g) ==
  /\ gen[g].fetch.pc = "headers"
  /\ gen' = [gen EXCEPT ![g] = Returned(gen[g], "neterr")]
  /\ UNCHANGED <<db, storage, uuidCount, ver>>

\* Line 23: the armed timer fires and aborts the pending fetch.
TimerFires(g) ==
  /\ gen[g].fetch.timer
  /\ gen[g].fetch.pc \in {"headers", "body"}
  /\ gen' = [gen EXCEPT ![g] = Returned(gen[g], "timeout")]
  /\ UNCHANGED <<db, storage, uuidCount, ver>>

\* Lines 29-30: the whole body has been read.
BodyArrives(g) ==
  /\ gen[g].fetch.pc = "body"
  /\ \E o \in {"png", "junk"} : gen' = [gen EXCEPT ![g] = Returned(gen[g], o)]
  /\ UNCHANGED <<db, storage, uuidCount, ver>>

\* Lines 29 and 31-32: the connection fails while the body is read.
BodyFails(g) ==
  /\ gen[g].fetch.pc = "body"
  /\ gen' = [gen EXCEPT ![g] = Returned(gen[g], "bodyerr")]
  /\ UNCHANGED <<db, storage, uuidCount, ver>>

\* Lines 98-191 after the photo fetch, then lines 280-283.
RenderEnd(g) ==
  /\ gen[g].pc = "render"
  /\ gen[g].fetch.at = "qr"
  /\ LET s == gen[g]
     IN \E qo \in {"ok", "error"} :
          LET r == renderCertificatePDF(CurPayload(s), s.fetch.logoOut,
                                        s.fetch.photoOut, qo)
          IN gen' = [gen EXCEPT ![g] =
                       IF r.ok THEN [s EXCEPT !.pc = "upload", !.pdfBuf = <<r.buf>>,
                                              !.fetch = NoFetch]
                       ELSE [Fail(s, r.err) EXCEPT !.fetch = NoFetch]]
  /\ UNCHANGED <<db, storage, uuidCount, ver>>

\* ------------------------------------------- GET /verify/:certificateId
Truthy(s) == s # <<>> /\ s # Null

escNoLt(s) ==
  ReplaceAll(
    ReplaceAll(
      ReplaceAll(
        ReplaceAll(s, "&", <<"&", "a", "m", "p", ";">>),
        ">", <<"&", "g", "t", ";">>),
      "\"", <<"&", "q", "u", "o", "t", ";">>),
    "'", <<"&", "#", "3", "9", ";">>)

esc(s) ==
  ReplaceAll(
    ReplaceAll(
      ReplaceAll(
        ReplaceAll(
          ReplaceAll(s, "&", <<"&", "a", "m", "p", ";">>),
          "<", <<"&", "l", "t", ";">>),
        ">", <<"&", "g", "t", ";">>),
      "\"", <<"&", "q", "u", "o", "t", ";">>),
    "'", <<"&", "#", "3", "9", ";">>)

Selected ==
  {"full_name", "program", "certificate", "cgpa", "institution_name", "pdf_url",
   "pdf_path", "certificate_id", "status", "logo_url"}

\* .select(...).eq("certificate_id", code).single(): data or error.
SelectSingle(table, code, fault) ==
  LET matches == {r \in table : r.certificate_id = code}
  IN IF fault THEN [cert |-> <<>>, error |-> "store fault"]
     ELSE IF Cardinality(matches) # 1 THEN [cert |-> <<>>, error |-> "PGRST116"]
     ELSE [cert |-> <<[c \in Selected |-> (CHOOSE r \in matches : TRUE)[c]]>>,
           error |-> ""]

NotFoundPage(code) ==
  [status |-> 404, title |-> "Certificate not found", code |-> esc(code)]

OrDash(s) == IF Truthy(s) THEN s ELSE <<"-">>

FoundPageWithTotal(cert, downloadUrl) ==
  [status |-> 200,
   title |-> esc(cert.full_name),
   logo |-> IF Truthy(cert.logo_url) THEN esc(cert.logo_url) ELSE <<>>,
   brand |-> esc(cert.institution_name) \o <<Cardinality(db)>>,
   badge |-> "Verified",
   heading |-> esc(cert.certificate),
   belongs |-> esc(cert.full_name)
                 \o (IF Truthy(cert.program) THEN <<" - ">> \o esc(cert.program) ELSE <<>>),
   student |-> esc(cert.full_name),
   program |-> esc(OrDash(cert.program)),
   cgpa |-> esc(OrDash(cert.cgpa)),
   action |-> IF Truthy(downloadUrl) THEN "Download PDF" ELSE "PDF unavailable",
   href |-> IF Truthy(downloadUrl) THEN downloadUrl ELSE <<>>,
   code |-> esc(cert.certificate_id),
   statusText |-> "Valid"]

FoundPage(cert, downloadUrl) ==
  [status |-> 200,
   title |-> esc(cert.full_name),
   logo |-> IF Truthy(cert.logo_url) THEN esc(cert.logo_url) ELSE <<>>,
   brand |-> esc(cert.institution_name),
   badge |-> "Verified",
   heading |-> esc(cert.certificate),
   belongs |-> esc(cert.full_name)
                 \o (IF Truthy(cert.program) THEN <<" - ">> \o esc(cert.program) ELSE <<>>),
   student |-> esc(cert.full_name),
   program |-> esc(OrDash(cert.program)),
   cgpa |-> esc(OrDash(cert.cgpa)),
   action |-> IF Truthy(downloadUrl) THEN "Download PDF" ELSE "PDF unavailable",
   href |-> IF Truthy(downloadUrl) THEN downloadUrl ELSE <<>>,
   code |-> esc(cert.certificate_id),
   statusText |-> "Valid"]

ExpiresIn == 60

createSignedUrl(path, token) == <<"sign/">> \o path \o <<"?token=", token>>

SignOutcomes(store, path) ==
  IF \E o \in store : o.path = path THEN {"t1", "t2", "error"} ELSE {"error"}

SignedUrlUnchecked(path, outcome) == createSignedUrl(path, outcome)

SignedUrlOrPath(path, outcome) ==
  IF outcome = "error" THEN path ELSE createSignedUrl(path, outcome)

SignedUrlOrNull(path, outcome) ==
  IF outcome = "error" THEN Null ELSE createSignedUrl(path, outcome)

RawCodes ==
  {uuidv4(1), <<" ">> \o uuidv4(2) \o <<" ">>, uuidv4(9),
   <<"<", "s", ">", "&", "'", "\"">>}

IdleVer == [pc |-> "idle", code |-> <<>>, cert |-> <<>>, error |-> "",
            sign |-> <<>>, signed |-> <<>>, res |-> [status |-> 0]]

\* Line 487 and the issue of the lookup (lines 500-506).
VerifyStart(v) ==
  /\ ver[v].pc = "idle"
  /\ \E raw \in RawCodes :
       ver' = [ver EXCEPT ![v] = [@ EXCEPT !.pc = "lookup", !.code = trim(raw)]]
  /\ UNCHANGED <<db, storage, uuidCount, gen>>

\* Lines 500-541: the lookup completes; not-found page, found page or signing.
VerifyLookup(v) ==
  /\ ver[v].pc = "lookup"
  /\ \E fault \in BOOLEAN :
       LET s == ver[v]
           r == SelectSingle(db, s.code, fault)
       IN ver' = [ver EXCEPT ![v] =
            IF r.error # "" \/ r.cert = <<>>
              THEN [s EXCEPT !.pc = "done", !.error = r.error,
                             !.res = NotFoundPage(s.code)]
            ELSE IF Truthy(r.cert[1].pdf_url)
              THEN [s EXCEPT !.pc = "done", !.cert = r.cert,
                             !.res = FoundPage(r.cert[1], r.cert[1].pdf_url)]
            ELSE IF Truthy(r.cert[1].pdf_path)
              THEN [s EXCEPT !.pc = "sign", !.cert = r.cert,
                             !.sign = <<[path |-> r.cert[1].pdf_path,
                                         expiresIn |-> ExpiresIn]>>]
            ELSE [s EXCEPT !.pc = "done", !.cert = r.cert,
                           !.res = FoundPage(r.cert[1], Null)]]
  /\ UNCHANGED <<db, storage, uuidCount, gen>>

\* Lines 537-672: the signing call completes; the found page is sent.
VerifySign(v) ==
  /\ ver[v].pc = "sign"
  /\ LET s == ver[v]
     IN \E outcome \in SignOutcomes(storage, s.sign[1].path) :
          LET downloadUrl == SignedUrlOrNull(s.sign[1].path, outcome)
          IN ver' = [ver EXCEPT ![v] =
                       [s EXCEPT !.pc = "done", !.signed = <<outcome>>,
                                 !.res = FoundPage(s.cert[1], downloadUrl)]]
  /\ UNCHANGED <<db, storage, uuidCount, gen>>

\* ------------------------------------------------ external administration
\* Status transitions and bucket visibility are changed outside this code.
Revoke ==
  /\ \E r \in db :
       /\ r.status = "valid"
       /\ db' = (db \ {r}) \cup {[r EXCEPT !.status = "revoked"]}
  /\ UNCHANGED <<storage, uuidCount, gen, ver>>

MakePrivate ==
  /\ \E r \in db :
       /\ r.pdf_url # Null
       /\ db' = (db \ {r}) \cup {[r EXCEPT !.pdf_url = Null]}
  /\ UNCHANGED <<storage, uuidCount, gen, ver>>

\* ------------------------------------------------------- specifications
Init ==
  /\ db = {}
  /\ storage = {}
  /\ uuidCount = 0
  /\ gen = [g \in Gens |-> IdleGen]
  /\ ver = [v \in Vers |-> IdleVer]

\* Concurrent generate requests.
Next ==
  \/ \E g \in Gens : GenerateStart(g)
  \/ \E g \in Gens : Render(g)
  \/ \E g \in Gens : Upload(g)
  \/ \E g \in Gens : Insert(g)

Spec == Init /\ [][Next]_vars

\* One generate request, concurrent verify requests, external administration.
VerifyRequests ==
  {Req(<<"I">>, <<"f">>, Xlsx(<<RowB, RowA>>))}

NextVerify ==
  \/ GenerateFrom("g1", VerifyRequests)
  \/ Render("g1")
  \/ Upload("g1")
  \/ Insert("g1")
  \/ \E v \in Vers : VerifyStart(v)
  \/ \E v \in Vers : VerifyLookup(v)
  \/ \E v \in Vers : VerifySign(v)
  \/ Revoke
  \/ MakePrivate

SpecVerify == Init /\ [][NextVerify]_vars

\* One generate request with its asset fetches taken await by await.  The
\* event loop runs a ready continuation and an armed timer fires; the remote
\* server owes nothing.
FetchRequests ==
  ValidRequests \cup {Req(<<"I">>, <<"https://", "l">>, Xlsx(<<RowB, RowA>>))}

NextFetch ==
  \/ GenerateFrom("g1", FetchRequests)
  \/ FetchCall("g1")
  \/ HeadersArrive("g1")
  \/ FetchRejects("g1")
  \/ TimerFires("g1")
  \/ BodyArrives("g1")
  \/ BodyFails("g1")
  \/ RenderEnd("g1")
  \/ Upload("g1")
  \/ Insert("g1")

SpecFetch ==
  /\ Init
  /\ [][NextFetch]_vars
  /\ WF_vars(FetchCall("g1"))
  /\ WF_vars(TimerFires("g1"))
  /\ WF_vars(RenderEnd("g1"))

\* ------------------------------------------------------------- properties
Fields(r) == [c \in {"full_name", "program", "certificate", "cgpa"} |-> r[c]]

RowFields(row) ==
  [c \in {"full_name", "program", "certificate", "cgpa"} |->
     CASE c = "full_name" -> trim(Cell(row, "Full Name"))
       [] c = "program" -> trim(Cell(row, "Program"))
       [] c = "certificate" -> trim(Cell(row, "Certificate"))
       [] OTHER -> trim(Cell(row, "CGPA"))]

WellFormed(req) ==
  /\ trim(req.institution_name) # <<>>
  /\ req.file.kind = "xlsx"
  /\ Len(req.file.rows) >= 1
  /\ Required \subseteq DOMAIN req.file.rows[1]

Ids(records) == {records[i].certificate_id : i \in DOMAIN records}

\* C1: a well-formed generate request in which every row's render, upload and
\* insert succeed is answered with exactly one record per spreadsheet row, in
\* row order (item i is the record inserted for row i, with its own
\* certificate_id), and count equals the number of rows.
C1_OneRecordPerRowInOrder ==
  \A g \in Gens :
    LET s == gen[g]
    IN (s.pc = "done" /\ WellFormed(s.req) /\ s.err = "") =>
         /\ s.res.status = 200
         /\ s.res.count = Len(s.req.file.rows)
         /\ Len(s.res.items) = Len(s.req.file.rows)
         /\ Cardinality(Ids(s.res.items)) = Len(s.req.file.rows)
         /\ \A i \in DOMAIN s.res.items :
              /\ s.res.items[i] \in db
              /\ Fields(s.res.items[i]) = RowFields(s.req.file.rows[i])

C1_Witness ==
  \E g \in Gens :
    /\ gen[g].pc = "done"
    /\ gen[g].res.status = 200
    /\ gen[g].res.count = 2
    /\ gen[g].req.file.rows[1] # gen[g].req.file.rows[2]

Started(g) == gen[g].pc = "idle" /\ gen'[g].pc # "idle"

Terminal(g) == gen[g].pc = "done" => gen'[g] = gen[g]

\* C2: a request that fails validation (blank institution_name, no file, a
\* sheet without data rows, or a required column missing from the first row)
\* is answered with an error in the step that receives it: no certificate id
\* is drawn, nothing is rendered, the artifact store and the metadata store
\* are unchanged, and the request does nothing afterwards.
C2_ValidationBeforeSideEffects ==
  [][\A g \in Gens :
       /\ (Started(g) /\ ~WellFormed(gen'[g].req) /\ gen'[g].req.file.kind # "corrupt") =>
            /\ gen'[g].pc = "done"
            /\ gen'[g].res.status = 400
            /\ DOMAIN gen'[g].res = {"status", "error"}
            /\ gen'[g].pdfBuf = <<>> /\ gen'[g].up = <<>> /\ gen'[g].inserted = <<>>
            /\ uuidCount' = uuidCount
            /\ db' = db
            /\ storage' = storage
       /\ Terminal(g)]_vars

C2_Witness ==
  \E g \in Gens :
    /\ gen[g].pc = "done"
    /\ gen[g].res.status = 400
    /\ gen[g].req.file.kind = "xlsx"
    /\ Len(gen[g].req.file.rows) >= 1
    /\ "CGPA" \notin DOMAIN gen[g].req.file.rows[1]
    /\ db # {}
    /\ storage # {}

FailsAtRow(g) == gen[g].pc \in {"render", "upload", "insert"} /\ gen'[g].err # ""

\* C3: when row k of a batch fails (render, upload or insert), the request is
\* answered at once with the generic failure and no items, no further
\* certificate id is drawn and the request does nothing afterwards, and of the
\* ids this request drew, the metadata store holds exactly the records of
\* rows 1..k-1.
C3_FailFastKeepsEarlierRows ==
  [][\A g \in Gens :
       /\ FailsAtRow(g) =>
            LET s == gen'[g]
                k == gen[g].i
            IN /\ s.pc = "done"
               /\ s.res = [status |-> 500, error |-> "Generation failed"]
               /\ s.i = k
               /\ uuidCount' = uuidCount
               /\ Len(s.inserted) = k - 1
               /\ \A j \in 1..(k - 1) :
                    Fields(s.inserted[j]) = RowFields(s.req.file.rows[j])
               /\ {r \in db' : r.certificate_id \in Ids(s.inserted) \cup {s.certificateId}}
                    = {s.inserted[j] : j \in 1..(k - 1)}
       /\ Terminal(g)]_vars

C3_Witness ==
  \E g \in Gens :
    /\ gen[g].pc = "done"
    /\ gen[g].err = "insert error"
    /\ gen[g].i = 2
    /\ Len(gen[g].inserted) = 1
    /\ gen[g].inserted[1] \in db

HasArtifact(path) == \E o \in storage : o.path = path

\* C4: every metadata record points at an artifact that is in storage; a row
\* still rendering or uploading has no metadata record, and an insert is only
\* in flight for a row whose artifact is already stored.
C4_RecordImpliesArtifact ==
  /\ \A r \in db : HasArtifact(r.pdf_path)
  /\ \A g \in Gens :
       /\ gen[g].pc \in {"render", "upload"} =>
            \A r \in db : r.certificate_id # gen[g].certificateId
       /\ gen[g].pc = "insert" => HasArtifact(gen[g].up[1].path)
       /\ (gen[g].pc = "done" /\ gen[g].err # "") =>
            \A r \in db : r.certificate_id # gen[g].certificateId

C4_Witness ==
  /\ \E g \in Gens : gen[g].pc = "done" /\ gen[g].err = "storage error"
                        /\ gen[g].inserted # <<>>
  /\ \E g \in Gens : gen[g].pc = "insert"
  /\ Cardinality(db) >= 2

AssetErrors == {"Unknown image format (logo)", "Unknown image format (photo)"}

\* C9: no outcome of a logo or photo fetch fails a row: a generate request is
\* never failed by an error raised while a fetched asset is placed.
C9_AssetNeverFailsRow ==
  \A g \in Gens : gen[g].err \notin AssetErrors

Entities ==
  {<<"&", "a", "m", "p", ";">>, <<"&", "l", "t", ";">>, <<"&", "g", "t", ";">>,
   <<"&", "q", "u", "o", "t", ";">>, <<"&", "#", "3", "9", ";">>}

Decoded(e) ==
  CASE e = <<"&", "a", "m", "p", ";">> -> "&"
    [] e = <<"&", "l", "t", ";">> -> "<"
    [] e = <<"&", "g", "t", ";">> -> ">"
    [] e = <<"&", "q", "u", "o", "t", ";">> -> "\""
    [] OTHER -> "'"

EntityAt(h) ==
  {e \in Entities : Len(h) >= Len(e) /\ SubSeq(h, 1, Len(e)) = e}

\* What a browser shows for markup text h; a raw markup character in h (one
\* that is not part of an entity) is reported as the element "RAW".
RECURSIVE Unescape(_)
Unescape(h) ==
  IF h = <<>> THEN <<>>
  ELSE IF EntityAt(h) # {}
    THEN LET e == CHOOSE x \in EntityAt(h) : TRUE
         IN <<Decoded(e)>> \o Unescape(SubSeq(h, Len(e) + 1, Len(h)))
  ELSE IF Head(h) \in {"&", "<", ">", "\"", "'"} THEN <<"RAW">> \o Unescape(Tail(h))
  ELSE <<Head(h)>> \o Unescape(Tail(h))

\* h is text s in HTML-escaped form.
EscapedFormOf(h, s) == Unescape(h) = s /\ \A i \in DOMAIN h : h[i] \notin {"<", ">", "\"", "'"}

Completes(v, from) == ver[v].pc = from /\ ver'[v].pc # from

NoRecord(code) == \A r \in db : r.certificate_id # code

\* C5: a verify request whose code has no record is answered, when its lookup
\* completes, with the 404 "Certificate not found" page (never the server
\* error); the page carries the requested code in HTML-escaped form only, and
\* the step writes neither store.
C5_UnknownCodeNotFoundEscaped ==
  [][\A v \in Vers :
       (Completes(v, "lookup") /\ NoRecord(ver[v].code)) =>
         /\ ver'[v].pc = "done"
         /\ ver'[v].res.status = 404
         /\ ver'[v].res.title = "Certificate not found"
         /\ EscapedFormOf(ver'[v].res.code, ver[v].code)
         /\ db' = db
         /\ storage' = storage]_vars

C5_Witness ==
  \E v \in Vers :
    /\ ver[v].pc = "done"
    /\ ver[v].res.status = 404
    /\ NoRecord(ver[v].code)
    /\ \E i \in DOMAIN ver[v].code : ver[v].code[i] = "<"
    /\ \E w \in Vers : ver[w].pc = "done" /\ ver[w].code = uuidv4(9)
                          /\ ver[w].res.status = 404
    /\ db # {}

\* The :certificateId segment of a verification URL, as the router extracts it.
CodeOfUrl(url) ==
  IF Len(url) >= 2 /\ SubSeq(url, 1, 2) = PublicBase \o <<"/certificates/verify/">>
    THEN SubSeq(url, 3, Len(url)) ELSE <<"NO MATCH">>

Shows(page, r) ==
  /\ page.status = 200
  /\ EscapedFormOf(page.student, r.full_name)
  /\ EscapedFormOf(page.title, r.full_name)
  /\ EscapedFormOf(page.code, r.certificate_id)
  /\ IF r.program # <<>> THEN EscapedFormOf(page.program, r.program)
                          ELSE page.program = <<"-">>

\* C6: the code embedded in a record's verify_url is the record's own
\* certificate_id, and a verify request for that code whose lookup the store
\* answers reads that record and returns the found page showing the record's
\* full_name, program (a dash for an empty one) and certificate_id.
C6_VerifyUrlRoundTrip ==
  [][/\ \A r \in db' : CodeOfUrl(r.verify_url) = r.certificate_id
     /\ \A v \in Vers :
          /\ \A r \in db :
               (Completes(v, "lookup") /\ ver'[v].error # "store fault"
                  /\ ver[v].code = CodeOfUrl(r.verify_url)) =>
                 /\ ver'[v].cert = <<[c \in Selected |-> r[c]]>>
                 /\ ver'[v].pc \in {"done", "sign"}
                 /\ ver'[v].pc = "done" => Shows(ver'[v].res, r)
          /\ Completes(v, "sign") =>
               /\ ver'[v].pc = "done"
               /\ ver'[v].cert = ver[v].cert
               /\ Shows(ver'[v].res, ver[v].cert[1])]_vars

C6_Witness ==
  \E v \in Vers : \E r \in db :
    /\ ver[v].pc = "done"
    /\ ver[v].code = CodeOfUrl(r.verify_url)
    /\ ver[v].res.status = 200
    /\ ver[v].cert # <<>>
    /\ \E i \in DOMAIN r.full_name : r.full_name[i] = "<"
    /\ Cardinality(db) >= 2

\* C7: the found page shows a Verified badge or a Valid status only for a
\* record whose status is valid.
C7_RevokedNotShownValid ==
  \A v \in Vers :
    (ver[v].pc = "done" /\ ver[v].res.status = 200 /\ ver[v].cert[1].status # "valid") =>
      /\ ver[v].res.badge # "Verified"
      /\ ver[v].res.statusText # "Valid"

\* C8: for a found record, a present pdf_url is the download link and no
\* signing call is made; otherwise one signing call is made for pdf_path with
\* a validity of 60 seconds, its URL becomes the download link, and when it
\* fails the found page is still returned, with "PDF unavailable" in place of
\* the link.
C8_DownloadLinkResolution ==
  [][\A v \in Vers :
       /\ (Completes(v, "lookup") /\ ver'[v].cert # <<>>) =>
            LET cert == ver'[v].cert[1]
            IN IF cert.pdf_url # Null
                 THEN /\ ver'[v].pc = "done"
                      /\ ver'[v].sign = <<>>
                      /\ ver'[v].res.status = 200
                      /\ ver'[v].res.action = "Download PDF"
                      /\ ver'[v].res.href = cert.pdf_url
                 ELSE /\ ver'[v].pc = "sign"
                      /\ ver'[v].sign = <<[path |-> cert.pdf_path, expiresIn |-> 60]>>
       /\ Completes(v, "sign") =>
            /\ ver'[v].pc = "done"
            /\ ver'[v].res.status = 200
            /\ ver'[v].sign = ver[v].sign
            /\ IF ver'[v].signed = <<"error">>
                 THEN /\ ver'[v].res.action = "PDF unavailable"
                      /\ ver'[v].res.href = <<>>
                 ELSE /\ ver'[v].res.action = "Download PDF"
                      /\ ver'[v].res.href =
                           <<"sign/">> \o ver[v].cert[1].pdf_path
                             \o <<"?token=">> \o ver'[v].signed]_vars

C8_Witness ==
  /\ \E v \in Vers : /\ ver[v].pc = "done"
                       /\ ver[v].res.status = 200
                       /\ ver[v].signed = <<"error">>
                       /\ ver[v].res.action = "PDF unavailable"
  /\ \E v \in Vers : /\ ver[v].pc = "done"
                       /\ ver[v].res.status = 200
                       /\ ver[v].sign = <<>>
                       /\ ver[v].res.action = "Download PDF"

StripToken(url) ==
  IF Len(url) >= 2 /\ url[Len(url) - 1] = "?token=" THEN SubSeq(url, 1, Len(url) - 1)
  ELSE url

SamePage(p, q) ==
  /\ [p EXCEPT !.href = <<>>] = [q EXCEPT !.href = <<>>]
  /\ StripToken(p.href) = StripToken(q.href)

SignKind(s) == IF s = <<>> THEN "none" ELSE IF s = <<"error">> THEN "error" ELSE "signed"

\* C10: no step of a verify request writes the metadata store or the artifact
\* store, and two verify requests for the same code of an existing record
\* whose lookups read the same record (as they do without an intervening
\* write) and whose signing calls end alike return the same page, up to the
\* token of a freshly signed URL.
C10_VerifyReadOnlyAndRepeatable ==
  [][/\ \A v \in Vers : ver'[v] # ver[v] => (db' = db /\ storage' = storage)
     /\ \A v, w \in Vers :
          (/\ ver'[v].pc = "done" /\ ver'[w].pc = "done"
           /\ ver'[v].code = ver'[w].code
           /\ ver'[v].cert # <<>>
           /\ ver'[v].cert = ver'[w].cert
           /\ SignKind(ver'[v].signed) = SignKind(ver'[w].signed)) =>
            /\ ver'[v].res.status = 200
            /\ SamePage(ver'[v].res, ver'[w].res)]_vars

C10_Witness ==
  \E v, w \in Vers :
    /\ v # w
    /\ ver[v].pc = "done" /\ ver[w].pc = "done"
    /\ ver[v].code = ver[w].code
    /\ ver[v].cert # <<>>
    /\ ver[v].cert = ver[w].cert
    /\ ver[v].signed # <<>> /\ ver[w].signed # <<>>
    /\ ver[v].signed # ver[w].signed
    /\ ver[v].signed # <<"error">> /\ ver[w].signed # <<"error">>
    /\ Cardinality(db) >= 2

Contains(h, p) ==
  \E i \in 1..(Len(h) - Len(p) + 1) : SubSeq(h, i, i + Len(p) - 1) = p

PageText(page) ==
  IF page.status = 404 THEN {page.code}
  ELSE {page.title, page.logo, page.brand, page.heading, page.belongs,
        page.student, page.program, page.cgpa, page.code}

\* C11: a page returned by verify carries no storage path of any record in its
\* text, on the found and on the not-found page alike; the only artifact
\* location on it is the download link, which is absent, the stored pdf_url
\* or a URL signed for the record's pdf_path, and never pdf_path itself.
C11_NoStoragePathOnPage ==
  \A v \in Vers :
    ver[v].pc = "done" =>
      /\ \A r \in db : \A f \in PageText(ver[v].res) : ~Contains(f, r.pdf_path)
      /\ ver[v].res.status = 200 =>
           LET cert == ver[v].cert[1]
           IN /\ \A f \in PageText(ver[v].res) : ~Contains(f, cert.pdf_path)
              /\ ver[v].res.href # cert.pdf_path
              /\ \/ ver[v].res.href = <<>>
                 \/ cert.pdf_url # Null /\ ver[v].res.href = cert.pdf_url
                 \/ \E tok \in {"t1", "t2"} :
                      ver[v].res.href = <<"sign/">> \o cert.pdf_path \o <<"?token=", tok>>

C11_Witness ==
  /\ \E v \in Vers : /\ ver[v].pc = "done"
                       /\ ver[v].res.status = 200
                       /\ ver[v].signed = <<"error">>
  /\ \E v \in Vers : /\ ver[v].pc = "done"
                       /\ ver[v].res.status = 200
                       /\ ver[v].signed \in {<<"t1">>, <<"t2">>}
                       /\ Contains(ver[v].res.href, ver[v].cert[1].pdf_path)

InsertRefused(g) ==
  /\ gen[g].pc = "insert" /\ gen'[g].pc # "insert"
  /\ \A r \in db' : r.certificate_id # gen[g].certificateId

\* C12: when the insert of a row stores nothing although the row's artifact
\* was uploaded, the request fails at that step with the generic failure,
\* the artifact stays in storage without a metadata record, no store is
\* written by the failing step (no compensating delete), and the request
\* issues nothing afterwards (no retry of the upload or of the insert).
C12_OrphanArtifactNoRetry ==
  [][\A g \in Gens :
       /\ InsertRefused(g) =>
            /\ gen'[g].pc = "done"
            /\ gen'[g].err = "insert error"
            /\ gen'[g].res = [status |-> 500, error |-> "Generation failed"]
            /\ storage' = storage
            /\ db' = db
            /\ uuidCount' = uuidCount
       /\ (gen[g].pc = "done" /\ gen[g].err = "insert error") =>
            /\ gen'[g] = gen[g]
            /\ \E o \in storage' : o.path = gen[g].up[1].path
            /\ \A r \in db' : r.certificate_id # gen[g].certificateId]_vars

C12_Witness ==
  \E g \in Gens :
    /\ gen[g].pc = "done"
    /\ gen[g].err = "insert error"
    /\ HasArtifact(gen[g].up[1].path)
    /\ \A r \in db : r.pdf_path # gen[g].up[1].path
    /\ \E h \in Gens : h # g /\ gen[h].pc = "done" /\ gen[h].res.status = 200

\* C13: verify answers with the not-found page only when no record with the
\* requested code is in the metadata store; a lookup of an existing record
\* that fails by a store fault is answered with the server error.
C13_NotFoundOnlyWithoutRecord ==
  [][\A v \in Vers :
       (Completes(v, "lookup") /\ ~NoRecord(ver[v].code)) =>
         /\ ~(ver'[v].pc = "done" /\ ver'[v].res.status = 404)
         /\ ver'[v].error = "store fault" =>
              (ver'[v].pc = "done" /\ ver'[v].res.status = 500)]_vars

\* C14: every remote asset fetch that has been started returns (bytes or
\* absent) whatever the remote server does, and the render of the row
\* completes.
C14_FetchAlwaysReturns ==
  /\ (gen["g1"].fetch.pc # "idle") ~> (gen["g1"].fetch.pc = "idle")
  /\ (gen["g1"].pc = "render") ~> (gen["g1"].pc # "render")

RECURSIVE SumOver(_, _)
SumOver(S, f) ==
  IF S = {} THEN 0
  ELSE LET x == CHOOSE y \in S : TRUE IN f[x] + SumOver(S \ {x}, f)

InProgress(s) == s.pc \in {"render", "upload", "insert"}

\* C15: within one batch the rows are processed one at a time and in order:
\* a row goes render, upload, insert; an insert is issued only once the
\* artifact is stored; the loop moves to row i+1 only in the step in which
\* the insert of row i stored its record; every certificate id drawn so far
\* belongs to a row some request has started, and a request has at most one
\* row started and not yet inserted.
C15_RowsStrictlySequential ==
  [][/\ uuidCount' = SumOver(Gens, [g \in Gens |-> gen'[g].i])
     /\ \A g \in Gens :
          LET s == gen[g]
              n == gen'[g]
          IN /\ InProgress(n) => Len(n.inserted) = n.i - 1
             /\ n.pc = "done" => n.i - Len(n.inserted) \in {0, 1}
             /\ s.pc = "idle" => (n.pc \in {"idle", "done"} /\ n.i = 0)
                                    \/ (n.pc = "render" /\ n.i = 1)
             /\ s.pc = "render" => n.pc \in {"render", "upload", "done"} /\ n.i = s.i
             /\ s.pc = "upload" =>
                  /\ n.pc \in {"upload", "insert", "done"} /\ n.i = s.i
                  /\ n.pc = "insert" => \E o \in storage' : o.path = n.up[1].path
             /\ s.pc = "insert" =>
                  /\ n.pc \in {"insert", "render", "done"}
                  /\ n.pc # "render" => n.i = s.i
                  /\ n.pc = "render" =>
                       /\ n.i = s.i + 1
                       /\ n.inserted[s.i] \in db'
                       /\ n.inserted[s.i].certificate_id = s.certificateId
                       /\ n.certificateId # s.certificateId]_vars

C15_Witness ==
  \E g, h \in Gens :
    /\ gen[g].pc = "render" /\ gen[g].i = 2 /\ Len(gen[g].inserted) = 1
    /\ gen[h].pc = "insert" /\ gen[h].i = 1

Paths(store) == {o.path : o \in store}

\* C16: under any interleaving of generate requests no certificate id is used
\* twice: two records never share a certificate_id or a pdf_path, rows in
\* progress hold ids that differ from each other and from every record, every
\* successful insert added a record of its own, and an upload about to be
\* made targets a path at which no artifact is stored yet.
C16_FreshIdPerRow ==
  /\ \A r1, r2 \in db :
       (r1.certificate_id = r2.certificate_id \/ r1.pdf_path = r2.pdf_path) => r1 = r2
  /\ Cardinality(db) = SumOver(Gens, [g \in Gens |-> Len(gen[g].inserted)])
  /\ \A g \in Gens :
       InProgress(gen[g]) =>
         /\ \A r \in db : r.certificate_id # gen[g].certificateId
         /\ \A h \in Gens \ {g} :
              InProgress(gen[h]) => gen[h].certificateId # gen[g].certificateId
         /\ gen[g].pc \in {"render", "upload"} =>
              ObjectPath(gen[g].certificateId, CurPayload(gen[g]).full_name)
                \notin Paths(storage)

C16_Witness ==
  /\ \E r1, r2 \in db :
       /\ r1 # r2
       /\ r1.full_name = r2.full_name
       /\ r1.created_by = r2.created_by
  /\ \A g \in Gens : gen[g].pc = "done" /\ gen[g].res.status = 200
                        /\ Len(gen[g].inserted) = 2
  /\ Cardinality(Paths(storage)) = 4
====
